---------------------------- MODULE Spec2Model ----------------------------
(***************************************************************************)
(* Privacy Popup Shopify app: the HMAC helpers (src/server/index.js) and   *)
(* the two Express applications (src/server/index.js, src/api/index.js).   *)
(*                                                                         *)
(* Strings are sequences of character codes (0..255), so that base64 and   *)
(* single-bit changes are computed on the characters themselves.           *)
(***************************************************************************)
EXTENDS Integers, Sequences, FiniteSets, TLC

VARIABLES
    \* ---- a call of one of the exported helpers (SpecHmac) ----
    pc,          \* "input" | "ready" | "done"
    prov,        \* where the signature under test comes from
    data,        \* verifyHmac's data argument
    signature,   \* verifyHmac's signature argument
    secret,      \* the secret argument
    query,       \* verifyOAuthHmac's query: <<key, value>> pairs, insertion order
    reordered,   \* the same mapping, its properties inserted in another order
    outcome,     \* what the call did: [raised, value, digested]
    \* ---- one Express process and the request it is serving (Spec) ----
    app,             \* "server" (src/server/index.js) | "api" (src/api/index.js)
    req,             \* the request in flight, or NoReq
    idx,             \* position of the request in the middleware stack
    res,             \* the response: [sent, status, by]
    ran,             \* the handlers of this repository that ran for req
    locals,          \* res.locals.shopify.session: a shop, or NoShop
    sessionStorage,  \* shops with a stored session (MemorySessionStorage)
    effects,         \* what the handlers did for req besides answering it
    dist,            \* whether ../dist holds the built front end
    timer,           \* the 25 s timer of the timeout middleware
    thrown,          \* the handler that raised while serving req, or "none"
    \* ---- clients of the settings routes, served concurrently (SpecSettings) ----
    clients,         \* per client: the request it has in flight and its answer
    posted,          \* the POSTs answered with success, oldest first (history)
    \* ---- a visitor's browser and the storefront widget (SpecWidget) ----
    day,             \* days since the first visit
    tick,            \* tenths of a second since the page was opened
    trips,           \* how often the visitor has been away
    storage,         \* localStorage's item under STORAGE_KEY, or NoItem
    acceptedAt,      \* when markAsAccepted last wrote the item, or -1 (history)
    page,            \* "closed" | "open"
    popups,          \* the .privacy-popup-overlay elements of the open page
    events,          \* what the open page's window and dataLayer were sent
    dataLayer,       \* whether window.dataLayer is defined
    \* ---- node starting one of the two entry files (SpecStart) ----
    env,             \* process.env after dotenv.config()
    proc,            \* the starting process: [main, at, errors, port]
    shopify          \* the api configuration shopifyApp() was given, or NoConfig

\* the variables of each part
helperVars   == <<pc, prov, data, signature, secret, query, reordered, outcome>>
serverVars   == <<app, req, idx, res, ran, locals, sessionStorage, effects, dist,
                  timer, thrown>>
settingsVars == <<clients, posted>>
widgetVars   == <<day, tick, trips, storage, acceptedAt, page, popups, events,
                  dataLayer>>
startVars    == <<env, proc, shopify>>

\* hvars: what an action of the server leaves alone; svars: what a helper
\* call leaves alone
hvars == <<helperVars, settingsVars, widgetVars, startVars>>
svars == <<serverVars, settingsVars, widgetVars, startVars>>
vars  == <<helperVars, serverVars, settingsVars, widgetVars, startVars>>

-----------------------------------------------------------------------------
(* Values of JavaScript *)

\* undefined: an absent argument, header or property (no string is <<-1>>)
undefined == <<-1>>

\* !x for x a string or undefined
Falsy(x) == x = undefined \/ x = <<>>

\* 2^n
RECURSIVE Pow2(_)
Pow2(n) == IF n = 0 THEN 1 ELSE 2 * Pow2(n - 1)

\* the character c with bit b (0 = least significant) inverted
FlipBit(c, b) == IF (c \div Pow2(b)) % 2 = 1 THEN c - Pow2(b) ELSE c + Pow2(b)

\* the string s with bit b of its i-th character inverted
FlipAt(s, i, b) == [s EXCEPT ![i] = FlipBit(s[i], b)]

-----------------------------------------------------------------------------
(* crypto.createHmac('sha256', secret).update(data).digest()               *)

\* bytes of a SHA-256 digest
DigestLen == 32

\* 31^e modulo 2^15
RECURSIVE PowMod(_)
PowMod(e) ==
    IF e = 0 THEN 1
    ELSE LET half == PowMod(e \div 2)
         IN  (((half * half) % 32768) * (IF e % 2 = 1 THEN 31 ELSE 1)) % 32768

\* The stand-in for the compression function: the 15-bit state after the
\* characters s[lo..hi] of a message of n characters, each character c
\* entering as (c + 1) * 31^(n - i).  31 is odd, so a change of one bit of
\* one character always changes the state.
RECURSIVE Absorbed(_, _, _)
Absorbed(s, lo, hi) ==
    IF lo > hi THEN 0
    ELSE IF lo = hi THEN ((s[lo] + 1) * PowMod(Len(s) - lo)) % 32768
    ELSE LET m == (lo + hi) \div 2
         IN  (Absorbed(s, lo, m) + Absorbed(s, m + 1, hi)) % 32768

\* The digest of data under secret: DigestLen bytes, a deterministic function
\* of both arguments.  SHA-256 itself is replaced by the stand-in above; what
\* is kept is the fixed length and the dependence on every bit of the key and
\* of the data.
Hmac(d, s) ==
    LET m == s \o <<255>> \o d
        h == (7 * PowMod(Len(m)) + Absorbed(m, 1, Len(m))) % 32768
    IN  [i \in 1..DigestLen |-> (h * (2 * i + 1) + i) % 256]

-----------------------------------------------------------------------------
(* base64, as Node encodes (digest('base64')) and decodes (Buffer.from)    *)

\* the character of the 6-bit value v
B64Char(v) ==
    IF v < 26 THEN 65 + v
    ELSE IF v < 52 THEN 97 + (v - 26)
    ELSE IF v < 62 THEN 48 + (v - 52)
    ELSE IF v = 62 THEN 43 ELSE 47

\* the 6-bit value of character c, -1 if c is not a base64 character; the
\* decoder also takes the URL-safe '-' and '_'
B64Index(c) ==
    IF c >= 65 /\ c <= 90 THEN c - 65
    ELSE IF c >= 97 /\ c <= 122 THEN c - 71
    ELSE IF c >= 48 /\ c <= 57 THEN c + 4
    ELSE IF c = 43 \/ c = 45 THEN 62
    ELSE IF c = 47 \/ c = 95 THEN 63
    ELSE -1

RECURSIVE Base64Encode(_)
Base64Encode(b) ==
    IF Len(b) = 0 THEN <<>>
    ELSE IF Len(b) = 1 THEN
        <<B64Char(b[1] \div 4), B64Char((b[1] % 4) * 16), 61, 61>>
    ELSE IF Len(b) = 2 THEN
        <<B64Char(b[1] \div 4), B64Char((b[1] % 4) * 16 + b[2] \div 16),
          B64Char((b[2] % 16) * 4), 61>>
    ELSE IF Len(b) = 3 THEN
        <<B64Char(b[1] \div 4), B64Char((b[1] % 4) * 16 + b[2] \div 16),
          B64Char((b[2] % 16) * 4 + b[3] \div 64), B64Char(b[3] % 64)>>
    ELSE LET m == 3 * ((Len(b) + 3) \div 6)
         IN  Base64Encode(SubSeq(b, 1, m)) \o Base64Encode(SubSeq(b, m + 1, Len(b)))

\* the part of s before its first '='
UpToPadding(s) ==
    LET pads == {i \in 1..Len(s) : s[i] = 61}
    IN  IF pads = {} THEN s
        ELSE SubSeq(s, 1, (CHOOSE i \in pads : \A j \in pads : i <= j) - 1)

\* the 6-bit values of the base64 characters of s; other characters are skipped
RECURSIVE B64Values(_)
B64Values(s) ==
    IF s = <<>> THEN <<>>
    ELSE IF Len(s) = 1 THEN
        (IF B64Index(s[1]) < 0 THEN <<>> ELSE <<B64Index(s[1])>>)
    ELSE LET m == Len(s) \div 2
         IN  B64Values(SubSeq(s, 1, m)) \o B64Values(SubSeq(s, m + 1, Len(s)))

\* the bytes of a sequence of 6-bit values; bits left over are dropped
RECURSIVE BytesOf(_)
BytesOf(v) ==
    IF Len(v) < 2 THEN <<>>
    ELSE IF Len(v) = 2 THEN <<v[1] * 4 + v[2] \div 16>>
    ELSE IF Len(v) = 3 THEN
        <<v[1] * 4 + v[2] \div 16, (v[2] % 16) * 16 + v[3] \div 4>>
    ELSE IF Len(v) = 4 THEN
        <<v[1] * 4 + v[2] \div 16, (v[2] % 16) * 16 + v[3] \div 4,
          (v[3] % 4) * 64 + v[4]>>
    ELSE LET m == 4 * ((Len(v) + 4) \div 8)
         IN  BytesOf(SubSeq(v, 1, m)) \o BytesOf(SubSeq(v, m + 1, Len(v)))

\* Buffer.from(s, 'base64'): decoding stops at the first '=', characters
\* outside the alphabet are skipped, and nothing is rejected
Base64Decode(s) == BytesOf(B64Values(UpToPadding(s)))

-----------------------------------------------------------------------------
(* verifyHmac *)

\* what a call did: whether it raised, the value it returned (FALSE when it
\* raised), and whether it computed a digest
Returned(v, dig) == [raised |-> FALSE, value |-> v, digested |-> dig]
Raised(dig)      == [raised |-> TRUE, value |-> FALSE, digested |-> dig]
NoOutcome        == [raised |-> FALSE, value |-> FALSE, digested |-> FALSE]

\* crypto.timingSafeEqual(a, b): raises RangeError when the lengths differ
timingSafeEqual(a, b) ==
    IF Len(a) # Len(b) THEN Raised(TRUE) ELSE Returned(a = b, TRUE)

\* the try block of verifyHmac
verifyHmacTry(d, sig, s) ==
    LET computedSignature == Base64Encode(Hmac(d, s))
    IN  timingSafeEqual(Base64Decode(sig), Base64Decode(computedSignature))

\* mutant: the provided signature is not decoded (Buffer.from(signature))
verifyHmac_rawSignature(d, sig, s) ==
    IF Falsy(d) \/ Falsy(sig) \/ Falsy(s) THEN Returned(FALSE, FALSE)
    ELSE LET r == timingSafeEqual(sig, Base64Decode(Base64Encode(Hmac(d, s))))
         IN  IF r.raised THEN Returned(FALSE, TRUE) ELSE r

\* mutant: no try/catch around the comparison
verifyHmac_noCatch(d, sig, s) ==
    IF Falsy(d) \/ Falsy(sig) \/ Falsy(s) THEN Returned(FALSE, FALSE)
    ELSE verifyHmacTry(d, sig, s)

verifyHmac(d, sig, s) ==
    IF Falsy(d) \/ Falsy(sig) \/ Falsy(s) THEN Returned(FALSE, FALSE)
    ELSE LET r == verifyHmacTry(d, sig, s)
         IN  IF r.raised THEN Returned(FALSE, TRUE) ELSE r

-----------------------------------------------------------------------------
(* verifyOAuthHmac *)

\* the key "hmac"
hmacKey == <<104, 109, 97, 99>>

\* a < b for strings, by code units: the order of Array.prototype.sort()
RECURSIVE StrLess(_, _)
StrLess(a, b) ==
    IF a = <<>> THEN b # <<>>
    ELSE IF b = <<>> THEN FALSE
    ELSE IF Head(a) # Head(b) THEN Head(a) < Head(b)
    ELSE StrLess(Tail(a), Tail(b))

\* a key that is a canonical array index ("0", "9", "10"; not "01")
IsIndex(k) ==
    /\ k # <<>>
    /\ \A i \in 1..Len(k) : k[i] >= 48 /\ k[i] <= 57
    /\ (Len(k) > 1 => k[1] # 48)

\* index keys by value: shorter first, then by digits
IndexLess(a, b) == Len(a) < Len(b) \/ (Len(a) = Len(b) /\ StrLess(a, b))

\* KeyLess(a, b, byIndex): the order of index keys, or of strings
KeyLess(a, b, byIndex) == IF byIndex THEN IndexLess(a, b) ELSE StrLess(a, b)

RECURSIVE InsertBy(_, _, _)
InsertBy(k, s, byIndex) ==
    IF s = <<>> THEN <<k>>
    ELSE IF KeyLess(k, Head(s), byIndex) THEN <<k>> \o s
    ELSE <<Head(s)>> \o InsertBy(k, Tail(s), byIndex)

RECURSIVE SortBy(_, _)
SortBy(s, byIndex) ==
    IF s = <<>> THEN <<>>
    ELSE InsertBy(Head(s), SortBy(Tail(s), byIndex), byIndex)

\* the keys of s that are (index = TRUE) or are not index keys, in order
RECURSIVE KeysOfKind(_, _)
KeysOfKind(s, index) ==
    IF s = <<>> THEN <<>>
    ELSE IF IsIndex(Head(s)) = index THEN <<Head(s)>> \o KeysOfKind(Tail(s), index)
    ELSE KeysOfKind(Tail(s), index)

\* obj[key]: the value stored under key, undefined if there is none
Get(obj, key) ==
    IF \E i \in 1..Len(obj) : obj[i][1] = key
    THEN obj[CHOOSE i \in 1..Len(obj) : obj[i][1] = key][2]
    ELSE undefined

\* const { hmac, ...params } = query: the other properties, in their order
RECURSIVE RestWithout(_, _)
RestWithout(obj, key) ==
    IF obj = <<>> THEN <<>>
    ELSE IF Head(obj)[1] = key THEN RestWithout(Tail(obj), key)
    ELSE <<Head(obj)>> \o RestWithout(Tail(obj), key)

\* Object.keys(obj): index keys in ascending order, then the other keys in
\* insertion order
ObjectKeys(obj) ==
    LET keys == [i \in 1..Len(obj) |-> obj[i][1]]
    IN  SortBy(KeysOfKind(keys, TRUE), TRUE) \o KeysOfKind(keys, FALSE)

\* keys.sort()
sort(keys) == SortBy(keys, FALSE)

\* pieces.join('&')
RECURSIVE join(_)
join(pieces) ==
    IF pieces = <<>> THEN <<>>
    ELSE IF Len(pieces) = 1 THEN pieces[1]
    ELSE pieces[1] \o <<38>> \o join(Tail(pieces))

\* mutant: the keys are not sorted
sortedParams_unsorted(params) ==
    LET keys == ObjectKeys(params)
    IN  join([i \in 1..Len(keys) |-> keys[i] \o <<61>> \o Get(params, keys[i])])

\* Object.keys(params).sort().map(key => `${key}=${params[key]}`).join('&')
sortedParams(params) ==
    LET keys == sort(ObjectKeys(params))
    IN  join([i \in 1..Len(keys) |-> keys[i] \o <<61>> \o Get(params, keys[i])])

\* mutant: hmac is not taken out of the parameters
verifyOAuthHmac_keepsHmac(q, s) ==
    IF Falsy(Get(q, hmacKey)) THEN Returned(FALSE, FALSE)
    ELSE verifyHmac(sortedParams(q), Get(q, hmacKey), s)

verifyOAuthHmac(q, s) ==
    LET hmac   == Get(q, hmacKey)
        params == RestWithout(q, hmacKey)
    IN  IF Falsy(hmac) THEN Returned(FALSE, FALSE)
        ELSE verifyHmac(sortedParams(params), hmac, s)

-----------------------------------------------------------------------------
(* The helpers called on bounded inputs *)

\* payloads: "", "a", "ab", "{}"
Payloads == {<<>>, <<97>>, <<97, 98>>, <<123, 125>>}

\* secrets: "", "k", "s3"
Secrets == {<<>>, <<107>>, <<115, 51>>}

\* most parameters of a query besides hmac
MaxParams == 2

\* code=x, shop=s, 9=a, 10=b
ParamPool ==
    { <<<<99, 111, 100, 101>>, <<120>>>>, <<<<115, 104, 111, 112>>, <<115>>>>,
      <<<<57>>, <<97>>>>, <<<<49, 48>>, <<98>>>> }

\* the mappings over ParamPool in every insertion order
Queries ==
    UNION { { q \in [1..n -> ParamPool] : \A i, j \in 1..n : i # j => q[i] # q[j] }
            : n \in 0..MaxParams }

\* the least key of a non-empty set of keys
MinKey(K) == CHOOSE k \in K : \A o \in K : o = k \/ StrLess(k, o)

\* The canonical string of a mapping, as the platform signs it: the
\* parameters other than hmac in ascending key order, key=value joined by '&'
RECURSIVE CanonicalOf(_, _)
CanonicalOf(q, K) ==
    IF K = {} THEN <<>>
    ELSE LET k == MinKey(K)
         IN  k \o <<61>> \o Get(q, k)
             \o (IF K = {k} THEN <<>> ELSE <<38>> \o CanonicalOf(q, K \ {k}))

Canonical(q) == CanonicalOf(q, {q[i][1] : i \in 1..Len(q)} \ {hmacKey})

\* signatures that are not the sender's: absent, "", "=", "AA==", "!", the
\* digest of another message, and the encoding of one byte too many
ForgedSignatures ==
    { undefined, <<>>, <<61>>, <<65, 65, 61, 61>>, <<33>>,
      Base64Encode(Hmac(<<122>>, <<107>>)),
      Base64Encode([i \in 1..DigestLen + 1 |-> 0]) }

\* no webhook delivery, no request, no response
NoHook == [body |-> undefined, hmac |-> undefined, domain |-> "none"]
NoReq  == [method |-> "NONE", path |-> <<>>, shop |-> "none", query |-> <<>>,
           hook |-> NoHook]
NoRes  == [sent |-> FALSE, status |-> "none", by |-> "none"]

\* no Express process
ServerIdle ==
    /\ app = "none" /\ req = NoReq /\ idx = 0 /\ res = NoRes /\ ran = {}
    /\ locals = "none" /\ sessionStorage = {} /\ effects = {} /\ dist = FALSE
    /\ timer = "none" /\ thrown = "none"

\* no client of the settings routes
SettingsIdle == clients = <<>> /\ posted = <<>>

\* no item under STORAGE_KEY
NoItem == [value |-> "null", expiry |-> 0]

\* no browser
WidgetIdle ==
    /\ day = 0 /\ tick = 0 /\ trips = 0 /\ storage = NoItem /\ acceptedAt = -1
    /\ page = "closed" /\ popups = <<>> /\ events = {} /\ dataLayer = FALSE

\* no process is starting
NoConfig == [apiKey |-> undefined, apiSecretKey |-> undefined, hostName |-> undefined,
             hostScheme |-> undefined, scopes |-> <<>>]

StartIdle ==
    /\ env = <<>> /\ shopify = NoConfig
    /\ proc = [main |-> "none", at |-> "none", errors |-> 0, port |-> undefined]

HInit ==
    /\ ServerIdle /\ SettingsIdle /\ WidgetIdle /\ StartIdle
    /\ prov = "none" /\ signature = undefined /\ outcome = NoOutcome
    /\ secret \in Secrets \cup {undefined}
    /\ \/ pc = "input" /\ data \in Payloads \cup {undefined}
          /\ query = <<>> /\ reordered = <<>>
       \/ pc = "query" /\ data = undefined
          /\ query \in Queries /\ reordered = query

\* the sender signs the payload with the shared secret
Sign ==
    /\ pc = "input" /\ data # undefined /\ secret # undefined
    /\ signature' = Base64Encode(Hmac(data, secret))
    /\ prov' = "signed" /\ pc' = "ready"
    /\ UNCHANGED <<data, secret, query, reordered, outcome>> /\ UNCHANGED svars

\* somebody else supplies the signature
Forge ==
    /\ pc = "input"
    /\ signature' \in ForgedSignatures
    /\ prov' = "forged" /\ pc' = "ready"
    /\ UNCHANGED <<data, secret, query, reordered, outcome>> /\ UNCHANGED svars

\* one bit of the signature string changes in transit
FlipSignatureBit ==
    /\ pc = "ready" /\ prov = "signed"
    /\ \E i \in 1..Len(signature), b \in 0..7 : signature' = FlipAt(signature, i, b)
    /\ prov' = "sigflip"
    /\ UNCHANGED <<pc, data, secret, query, reordered, outcome>> /\ UNCHANGED svars

\* one bit of the payload changes in transit
FlipDataBit ==
    /\ pc = "ready" /\ prov = "signed"
    /\ \E i \in 1..Len(data), b \in 0..7 : data' = FlipAt(data, i, b)
    /\ prov' = "dataflip"
    /\ UNCHANGED <<pc, signature, secret, query, reordered, outcome>> /\ UNCHANGED svars

Verify ==
    /\ pc = "ready"
    /\ outcome' = verifyHmac(data, signature, secret)
    /\ pc' = "done"
    /\ UNCHANGED <<prov, data, signature, secret, query, reordered>> /\ UNCHANGED svars

\* the query arrives with an hmac parameter: the sender's signature of the
\* canonical string, an empty one, or the signature of another message
AttachHmac ==
    /\ pc = "query"
    /\ \E pos \in 0..Len(query) :
       \E kind \in {"signed", "empty", "forged"} :
          LET v == IF kind = "signed" /\ secret # undefined
                   THEN Base64Encode(Hmac(Canonical(query), secret))
                   ELSE IF kind = "empty" THEN <<>>
                   ELSE Base64Encode(Hmac(<<122>>, <<107>>))
              q == SubSeq(query, 1, pos) \o <<<<hmacKey, v>>>>
                   \o SubSeq(query, pos + 1, Len(query))
          IN  /\ query' = q /\ reordered' = q
              /\ prov' = IF kind = "signed" /\ secret # undefined
                         THEN "signed" ELSE "forged"
    /\ pc' = "oauth"
    /\ UNCHANGED <<data, signature, secret, outcome>> /\ UNCHANGED svars

\* the query arrives without an hmac parameter
NoHmac ==
    /\ pc = "query"
    /\ pc' = "oauth"
    /\ UNCHANGED <<prov, data, signature, secret, query, reordered, outcome>>
    /\ UNCHANGED svars

VerifyOAuth ==
    /\ pc = "oauth"
    /\ outcome' = verifyOAuthHmac(query, secret)
    /\ pc' = "odone"
    /\ UNCHANGED <<prov, data, signature, secret, query, reordered>> /\ UNCHANGED svars

\* the same mapping built in another insertion order
Reorder ==
    /\ pc = "odone"
    /\ \E i \in 1..Len(reordered) - 1 :
          reordered' = [reordered EXCEPT ![i] = reordered[i + 1],
                                         ![i + 1] = reordered[i]]
    /\ UNCHANGED <<pc, prov, data, signature, secret, query, outcome>>
    /\ UNCHANGED svars

HNext ==
    \/ Sign \/ Forge \/ FlipSignatureBit \/ FlipDataBit \/ Verify
    \/ AttachHmac \/ NoHmac \/ VerifyOAuth \/ Reorder

SpecHmac == HInit /\ [][HNext]_vars

-----------------------------------------------------------------------------
(* Claims about verifyHmac *)

\* C1 as stated: verifyHmac(P, sig, S) is true for every string P and every
\* string S when sig is the base64 encoding of HMAC-SHA256 of P under S.
C1_EveryStringVerifies ==
    (pc = "done" /\ prov = "signed") => outcome.value = TRUE

\* C1 amended: verifyHmac(P, sig, S) is true for every non-empty string P
\* and every non-empty string S when sig is the base64 encoding of
\* HMAC-SHA256 of P under S.
C1_NonEmptyVerifies ==
    (pc = "done" /\ prov = "signed" /\ data # <<>> /\ secret # <<>>)
        => outcome = Returned(TRUE, TRUE)

C1_Witness ==
    /\ pc = "done" /\ prov = "signed"
    /\ data = <<97, 98>> /\ secret = <<115, 51>>
    /\ outcome.value = TRUE

\* C2: with sig the correct signature of P under S, verifyHmac is false for
\* every P' that differs from P in a single bit and for every signature
\* string sig' that differs from sig in a single bit.
C2_SingleBitChangeRejected ==
    (pc = "done" /\ prov \in {"sigflip", "dataflip"}) => outcome.value = FALSE

\* the signature has no value, or does not decode to DigestLen bytes
Malformed ==
    \/ Falsy(data) \/ Falsy(signature) \/ Falsy(secret)
    \/ Len(Base64Decode(signature)) # DigestLen

\* C3: verifyHmac never raises; with a missing payload, signature or secret,
\* or a signature that does not decode to a digest of the right length, it
\* returns false as a value.
C3_NeverRaises ==
    pc = "done" => /\ ~outcome.raised
                   /\ (Malformed => outcome.value = FALSE)

C3_Witness ==
    /\ pc = "done"
    /\ ~Falsy(data) /\ ~Falsy(signature) /\ ~Falsy(secret)
    /\ Len(Base64Decode(signature)) # DigestLen
    /\ outcome = Returned(FALSE, TRUE)

-----------------------------------------------------------------------------
(* Claims about verifyOAuthHmac *)

\* C4: two query mappings that hold the same key/value pairs in a different
\* insertion order get the same result from verifyOAuthHmac, for every secret.
C4_OrderInvariant ==
    pc = "odone" => verifyOAuthHmac(reordered, secret).value = outcome.value

C4_Witness ==
    /\ pc = "odone" /\ reordered # query /\ Len(query) = MaxParams + 1
    /\ outcome.value = TRUE
    /\ verifyOAuthHmac(reordered, secret).value = TRUE

\* C5: verifyOAuthHmac returns false without computing a digest when query
\* has no hmac key; otherwise its result is verifyHmac(C, query.hmac, secret),
\* C being the parameters other than hmac sorted by key and joined as
\* key=value pairs with '&'.
C5_CanonicalDelegation ==
    pc = "odone" =>
        IF Get(query, hmacKey) = undefined
        THEN outcome = Returned(FALSE, FALSE)
        ELSE outcome = verifyHmac(Canonical(query), Get(query, hmacKey), secret)

C5_Witness ==
    /\ pc = "odone" /\ Len(query) = MaxParams + 1
    /\ query[1][1] = <<115, 104, 111, 112>>
    /\ outcome = Returned(TRUE, TRUE)

-----------------------------------------------------------------------------
(* The Express applications: routes and middleware in registration order  *)

\* a layer of the stack: a route (method and path) or a middleware (use);
\* chained marks the second handler of the route registered just before it
Route(method, path, h) ==
    [kind |-> "route", method |-> method, path |-> path, h |-> h, chained |-> FALSE]
Then(h) ==
    [kind |-> "route", method |-> "ANY", path |-> <<>>, h |-> h, chained |-> TRUE]
Use(path, h) ==
    [kind |-> "use", method |-> "ANY", path |-> path, h |-> h, chained |-> FALSE]
ErrorHandler(h) ==
    [kind |-> "error", method |-> "ANY", path |-> <<>>, h |-> h, chained |-> FALSE]

\* src/server/index.js
serverStack ==
    << Route("GET", <<"api", "health">>, "health"),
       Use(<<"**">>, "cspHeaders"),
       Route("POST", <<"api", "webhooks", "app", "uninstalled">>, "express.raw"),
       Then("webhookUninstalled"),
       Use(<<"api", "*">>, "validateAuthenticatedSession"),
       Route("GET", <<"api", "shop">>, "getShop"),
       Route("GET", <<"api", "settings">>, "getSettings"),
       Route("POST", <<"api", "settings">>, "postSettings"),
       Route("GET", <<"api", "theme-extension", "activate">>,
             "validateAuthenticatedSession"),
       Then("themeActivate"),
       Use(<<"**">>, "express.static"),
       Route("GET", <<"*">>, "catchAll") >>

\* mutant: the session gate is registered after the settings routes
apiStack_gateAfterSettings ==
    << Route("GET", <<"api", "health">>, "health"),
       Route("GET", <<"api", "app-info">>, "appInfo"),
       Route("GET", <<"api", "config">>, "config"),
       Route("GET", <<"api", "debug-oauth">>, "debugOAuth"),
       Route("GET", <<"api", "test-auth">>, "testAuth"),
       Use(<<"**">>, "cspHeaders"),
       Route("GET", <<"auth">>, "ensureInstalledOnShop"),
       Then("auth"),
       Route("GET", <<"auth", "callback">>, "authCallback"),
       Route("GET", <<"exitiframe">>, "ensureInstalledOnShop"),
       Then("exitIframe"),
       Use(<<"**">>, "timeout"),
       ErrorHandler("errorHandler"),
       Route("GET", <<>>, "root"),
       Route("POST", <<"webhooks", "app", "uninstalled">>, "express.raw"),
       Then("webhookUninstalled"),
       Route("GET", <<"api", "shop">>, "getShop"),
       Route("GET", <<"api", "settings">>, "getSettings"),
       Route("POST", <<"api", "settings">>, "postSettings"),
       Use(<<"api", "*">>, "apiGate"),
       Route("GET", <<"api", "theme-extension", "activate">>,
             "validateAuthenticatedSession"),
       Then("themeActivate"),
       Use(<<"**">>, "express.static"),
       Route("GET", <<"*">>, "catchAll") >>

\* src/api/index.js
apiStack ==
    << Route("GET", <<"api", "health">>, "health"),
       Route("GET", <<"api", "app-info">>, "appInfo"),
       Route("GET", <<"api", "config">>, "config"),
       Route("GET", <<"api", "debug-oauth">>, "debugOAuth"),
       Route("GET", <<"api", "test-auth">>, "testAuth"),
       Use(<<"**">>, "cspHeaders"),
       Route("GET", <<"auth">>, "ensureInstalledOnShop"),
       Then("auth"),
       Route("GET", <<"auth", "callback">>, "authCallback"),
       Route("GET", <<"exitiframe">>, "ensureInstalledOnShop"),
       Then("exitIframe"),
       Use(<<"**">>, "timeout"),
       ErrorHandler("errorHandler"),
       Route("GET", <<>>, "root"),
       Route("POST", <<"webhooks", "app", "uninstalled">>, "express.raw"),
       Then("webhookUninstalled"),
       Use(<<"api", "*">>, "apiGate"),
       Route("GET", <<"api", "shop">>, "getShop"),
       Route("GET", <<"api", "settings">>, "getSettings"),
       Route("POST", <<"api", "settings">>, "postSettings"),
       Route("GET", <<"api", "theme-extension", "activate">>,
             "validateAuthenticatedSession"),
       Then("themeActivate"),
       Use(<<"**">>, "express.static"),
       Route("GET", <<"*">>, "catchAll") >>

Stack(a) == IF a = "server" THEN serverStack ELSE apiStack

\* auth.callbackPath of the shopifyApp configuration
callbackPath(a) == IF a = "server" THEN <<"api", "auth", "callback">>
                   ELSE <<"auth", "callback">>

\* whether layer l takes request r: app.use(fn) takes every request,
\* app.use('/api/*') those below /api/, a route those of its method and path
\* (the path '*' being every path); an error handler takes no request
Matches(l, r) ==
    /\ l.kind # "error"
    /\ ~l.chained
    /\ IF l.kind = "use"
       THEN \/ l.path = <<"**">>
            \/ l.path = <<"api", "*">> /\ Len(r.path) >= 2 /\ r.path[1] = "api"
       ELSE /\ l.method = r.method
            /\ (l.path = <<"*">> \/ l.path = r.path)

\* the first layer at or after i that takes r; past the stack, Express's own
\* final handler
FirstMatch(S, r, i) ==
    LET takers == {j \in i..Len(S) : Matches(S[j], r)}
    IN  IF takers = {} THEN Len(S) + 1
        ELSE CHOOSE j \in takers : \A k \in takers : j <= k

\* where next() called in layer i leads
Following(S, r, i) ==
    IF i < Len(S) /\ S[i + 1].chained THEN i + 1 ELSE FirstMatch(S, r, i + 1)

-----------------------------------------------------------------------------
(* Requests *)

Shops == {"s1", "s2"}

\* process.env.SHOPIFY_API_SECRET: "s3"
apiSecretKey == <<115, 51>>

\* the query keys "code", "shop"
codeKey == <<99, 111, 100, 101>>
shopKey == <<115, 104, 111, 112>>

\* q with the platform's signature of its canonical string put in front
Signed(q) == <<<<hmacKey, Base64Encode(Hmac(Canonical(q), apiSecretKey))>>>> \o q

\* queries of a GET request: none; a complete signed callback; one without
\* code; one without shop; a complete one whose hmac signs something else
RequestQueries ==
    { <<>>,
      Signed(<<<<codeKey, <<120>>>>, <<shopKey, <<115>>>>>>),
      Signed(<<<<shopKey, <<115>>>>>>),
      Signed(<<<<codeKey, <<120>>>>>>),
      <<<<hmacKey, Base64Encode(Hmac(<<122>>, <<107>>))>>,
        <<codeKey, <<120>>>>, <<shopKey, <<115>>>>>> }

\* deliveries of a POST request: none; the platform's (body "{}" signed with
\* the app secret); the same with a signature made with another secret; one
\* without the signature header
Deliveries ==
    { NoHook,
      [body |-> <<123, 125>>, hmac |-> Base64Encode(Hmac(<<123, 125>>, apiSecretKey)),
       domain |-> "s1"],
      [body |-> <<123, 125>>, hmac |-> Base64Encode(Hmac(<<123, 125>>, <<107>>)),
       domain |-> "s1"],
      [body |-> <<123, 125>>, hmac |-> undefined, domain |-> "s2"] }

GetPaths ==
    { <<"api", "health">>, <<"api", "app-info">>, <<"api", "config">>,
      <<"api", "debug-oauth">>, <<"api", "test-auth">>, <<"auth">>,
      <<"auth", "callback">>, <<"api", "auth", "callback">>, <<"exitiframe">>,
      <<>>, <<"api", "shop">>, <<"api", "settings">>,
      <<"api", "theme-extension", "activate">>, <<"api", "nope">>,
      <<"assets", "app.js">>, <<"page">> }

PostPaths ==
    { <<"api", "settings">>, <<"api", "shop">>, <<"webhooks", "app", "uninstalled">>,
      <<"api", "webhooks", "app", "uninstalled">>, <<"page">> }

\* req.shop is the shop whose session the request's cookie or token names
Requests ==
    { [method |-> "GET", path |-> p, shop |-> s, query |-> q, hook |-> NoHook] :
        p \in GetPaths, s \in Shops \cup {"none"}, q \in RequestQueries }
    \cup
    { [method |-> "POST", path |-> p, shop |-> s, query |-> <<>>, hook |-> d] :
        p \in PostPaths, s \in Shops \cup {"none"}, d \in Deliveries }

\* files of ../dist besides index.html
DistFiles == { <<"assets", "app.js">> }

-----------------------------------------------------------------------------
(* Serving a request *)

\* no helper call is being checked
HelperIdle ==
    /\ pc = "idle" /\ prov = "none" /\ data = undefined /\ signature = undefined
    /\ secret = undefined /\ query = <<>> /\ reordered = <<>> /\ outcome = NoOutcome

Init ==
    /\ HelperIdle /\ SettingsIdle /\ WidgetIdle /\ StartIdle
    /\ app \in {"server", "api"}
    /\ dist \in BOOLEAN
    /\ req = NoReq /\ idx = 0 /\ res = NoRes /\ ran = {} /\ locals = "none"
    /\ sessionStorage = {} /\ effects = {} /\ timer = "none" /\ thrown = "none"

\* the request is at the layer whose handler is h
At(h) == idx \in 1..Len(Stack(app)) /\ Stack(app)[idx].h = h

\* next()
CallNext == idx' = Following(Stack(app), req, idx)

\* res.status(status).json(...), .send(...) or res.redirect(...): the response
\* is written ('finish' follows later); once the headers are sent the call
\* throws instead
Answer(status, by) ==
    /\ IF res.sent
       THEN thrown' = by /\ UNCHANGED res
       ELSE /\ res' = [sent |-> TRUE, status |-> status, by |-> by]
            /\ UNCHANGED thrown
    /\ idx' = 0 /\ UNCHANGED timer

\* a handler of the repository that answers with status and does eff
Responds(h, status, eff) ==
    /\ Answer(status, h)
    /\ ran' = ran \cup {h}
    /\ effects' = effects \cup eff
    /\ UNCHANGED <<app, req, locals, sessionStorage, dist>> /\ UNCHANGED hvars

\* a middleware that only calls next()
PassesOn ==
    /\ CallNext
    /\ UNCHANGED <<app, req, res, ran, locals, sessionStorage, effects, dist, timer,
                   thrown>>
    /\ UNCHANGED hvars

\* a request arrives; Express hands it to the first layer that takes it
NewRequest ==
    /\ app # "none" /\ idx = 0 /\ req = NoReq
    /\ \E r \in Requests :
          /\ req' = r
          /\ idx' = FirstMatch(Stack(app), r, 1)
    /\ res' = NoRes /\ ran' = {} /\ locals' = "none" /\ effects' = {}
    /\ timer' = "none" /\ thrown' = "none"
    /\ UNCHANGED <<app, sessionStorage, dist>> /\ UNCHANGED hvars

\* the connection of the answered request closes ('close' clears the timer)
Close ==
    /\ idx = 0 /\ req # NoReq
    /\ req' = NoReq /\ res' = NoRes /\ ran' = {} /\ locals' = "none"
    /\ effects' = {} /\ timer' = "none" /\ thrown' = "none"
    /\ UNCHANGED <<app, idx, sessionStorage, dist>> /\ UNCHANGED hvars

\* the Shopify library stores a session for a shop (no handler of the
\* repository does)
StoreSession ==
    /\ app # "none"
    /\ \E s \in Shops : s \notin sessionStorage /\ sessionStorage' = sessionStorage \cup {s}
    /\ UNCHANGED <<app, req, idx, res, ran, locals, effects, dist, timer, thrown>>
    /\ UNCHANGED hvars

Health == At("health") /\ Responds("health", "200", {})

AppInfo == At("appInfo") /\ Responds("appInfo", "200", {})

Config == At("config") /\ Responds("config", "200", {})

DebugOAuth ==
    /\ At("debugOAuth")
    /\ IF Falsy(Get(req.query, shopKey))
       THEN Responds("debugOAuth", "400", {})
       ELSE Responds("debugOAuth", "200", {})

TestAuth ==
    /\ At("testAuth")
    /\ IF Falsy(Get(req.query, shopKey))
       THEN Responds("testAuth", "400", {})
       ELSE Responds("testAuth", "302", {<<"log:manual-oauth-url", "none">>})

CspHeaders == At("cspHeaders") /\ PassesOn

\* shopify.ensureInstalledOnShop(): the library lets the request through or
\* answers it itself with a redirect
EnsureInstalledOnShop ==
    /\ At("ensureInstalledOnShop")
    /\ \/ CallNext /\ UNCHANGED <<res, timer, thrown>>
       \/ Answer("302", "ensureInstalledOnShop")
    /\ UNCHANGED <<app, req, ran, locals, sessionStorage, effects, dist>>
    /\ UNCHANGED hvars

\* if (!res.headersSent) res.status(200).json(...)
AnswersUnlessSent(h) ==
    IF res.sent
    THEN /\ idx' = 0 /\ ran' = ran \cup {h}
         /\ UNCHANGED <<app, req, res, locals, sessionStorage, effects, dist, timer,
                        thrown>>
         /\ UNCHANGED hvars
    ELSE Responds(h, "200", {})

Auth == At("auth") /\ AnswersUnlessSent("auth")

AuthCallback == At("authCallback") /\ AnswersUnlessSent("authCallback")

ExitIframe == At("exitIframe") /\ AnswersUnlessSent("exitIframe")

\* the timeout middleware arms a 25 s timer and calls next()
TimeoutMiddleware ==
    /\ At("timeout")
    /\ timer' = "armed"
    /\ CallNext
    /\ UNCHANGED <<app, req, res, ran, locals, sessionStorage, effects, dist, thrown>>
    /\ UNCHANGED hvars

\* handlers that wait for something before they answer or call next(): the
\* library's middleware (session lookup), express.raw (the body stream),
\* express.static (the file system) and the Admin API call of /api/shop
MayWait(h) ==
    h \in {"ensureInstalledOnShop", "validateAuthenticatedSession", "apiGate",
           "express.raw", "express.static", "getShop"}

\* the request is with a handler that is waiting
Waiting == idx \in 1..Len(Stack(app)) /\ MayWait(Stack(app)[idx].h)

\* the timer fires: 25 s have passed while a later layer is waiting, or
\* after the response was written and before its 'finish'
TimeoutFires_noHeadersSentCheck ==
    /\ timer = "armed" /\ (Waiting \/ res.sent)
    /\ timer' = "fired"
    /\ res' = [sent |-> TRUE, status |-> "504", by |-> "timeout"]
    /\ UNCHANGED <<app, req, idx, ran, locals, sessionStorage, effects, dist, thrown>>
    /\ UNCHANGED hvars

TimeoutFires ==
    /\ timer = "armed" /\ (Waiting \/ res.sent)
    /\ timer' = "fired"
    /\ res' = IF res.sent THEN res
              ELSE [sent |-> TRUE, status |-> "504", by |-> "timeout"]
    /\ UNCHANGED <<app, req, idx, ran, locals, sessionStorage, effects, dist, thrown>>
    /\ UNCHANGED hvars

\* res.on('finish', () => clearTimeout(timeout)): the written response has
\* been handed to the network
Finish ==
    /\ timer = "armed" /\ res.sent
    /\ timer' = "cleared"
    /\ UNCHANGED <<app, req, idx, res, ran, locals, sessionStorage, effects, dist,
                   thrown>>
    /\ UNCHANGED hvars

\* res.on('close', () => clearTimeout(timeout)): the client gives up while a
\* layer is still waiting
ConnectionCloses ==
    /\ timer = "armed" /\ Waiting
    /\ timer' = "cleared"
    /\ UNCHANGED <<app, req, idx, res, ran, locals, sessionStorage, effects, dist,
                   thrown>>
    /\ UNCHANGED hvars

Root ==
    /\ At("root")
    /\ IF ~Falsy(Get(req.query, shopKey)) \/ ~Falsy(Get(req.query, hmacKey))
       THEN Responds("root", "302", {})
       ELSE /\ CallNext /\ ran' = ran \cup {"root"}
            /\ UNCHANGED <<app, req, res, locals, sessionStorage, effects, dist,
                           timer, thrown>>
            /\ UNCHANGED hvars

\* express.raw({ type: 'application/json' })
ExpressRaw == At("express.raw") /\ PassesOn

\* the handler reads the three headers and the body, logs the shop and
\* answers 200 'OK'
WebhookUninstalled ==
    /\ At("webhookUninstalled")
    /\ Responds("webhookUninstalled", "200", {<<"log:uninstalled", req.hook.domain>>})

\* shopify.validateAuthenticatedSession(): with a stored session for the
\* request's shop the library sets res.locals.shopify.session and calls
\* next(); without one it answers the request itself
validateAuthenticatedSession ==
    IF req.shop \in sessionStorage
    THEN /\ locals' = req.shop /\ CallNext /\ UNCHANGED <<res, timer, thrown>>
    ELSE /\ Answer("unauthenticated", "validateAuthenticatedSession")
         /\ UNCHANGED locals

ValidateAuthenticatedSession ==
    /\ At("validateAuthenticatedSession")
    /\ validateAuthenticatedSession
    /\ UNCHANGED <<app, req, ran, sessionStorage, effects, dist>>
    /\ UNCHANGED hvars

\* req.path inside app.use('/api/*', ...): Express removes the part of the
\* path the mount pattern matched, and '*' matches the rest of the path
MountedPath(path) == <<>>

\* the gate of src/api/index.js: next() for the two listed paths, the
\* library's check for every other
ApiGate ==
    /\ At("apiGate")
    /\ IF \/ MountedPath(req.path) = <<"api", "health">>
          \/ MountedPath(req.path) = <<"api", "config">>
       THEN CallNext /\ UNCHANGED <<res, timer, thrown, locals>>
       ELSE validateAuthenticatedSession
    /\ UNCHANGED <<app, req, ran, sessionStorage, effects, dist>>
    /\ UNCHANGED hvars

\* the Admin API call succeeds (200) or fails (caught: 500)
GetShop ==
    /\ At("getShop")
    /\ \/ Responds("getShop", "200", {<<"admin:shop.get", locals>>})
       \/ Responds("getShop", "500", {<<"admin:shop.get", locals>>})

GetSettings == At("getSettings") /\ Responds("getSettings", "200", {})

PostSettings ==
    /\ At("postSettings")
    /\ Responds("postSettings", "200", {<<"log:saving-settings", locals>>})

ThemeActivate == At("themeActivate") /\ Responds("themeActivate", "302", {})

\* express.static(../dist): a GET for a file of dist (index.html for '/')
\* is answered, every other request passed on
ExpressStatic ==
    /\ At("express.static")
    /\ IF req.method = "GET" /\ dist /\ (req.path \in DistFiles \/ req.path = <<>>)
       THEN Answer("200", "express.static")
       ELSE CallNext /\ UNCHANGED <<res, timer, thrown>>
    /\ UNCHANGED <<app, req, ran, locals, sessionStorage, effects, dist>>
    /\ UNCHANGED hvars

\* req.path.startsWith('/api/')
IsApiPath(path) == Len(path) >= 2 /\ path[1] = "api"

\* serves index.html; /api/ paths, and in src/api/index.js requests with a
\* shop or hmac parameter, are passed on; a failing read is answered 500
CatchAll ==
    /\ At("catchAll")
    /\ IF \/ IsApiPath(req.path)
          \/ /\ app = "api"
             /\ (~Falsy(Get(req.query, shopKey)) \/ ~Falsy(Get(req.query, hmacKey)))
       THEN /\ CallNext /\ ran' = ran \cup {"catchAll"}
            /\ UNCHANGED <<app, req, res, locals, sessionStorage, effects, dist,
                           timer, thrown>>
            /\ UNCHANGED hvars
       ELSE IF dist THEN Responds("catchAll", "200", {})
       ELSE Responds("catchAll", "500", {})

\* no layer is left: Express answers 404, unless the headers are sent
FinalHandler ==
    /\ idx = Len(Stack(app)) + 1
    /\ idx' = 0
    /\ res' = IF res.sent THEN res
              ELSE [sent |-> TRUE, status |-> "404", by |-> "finalhandler"]
    /\ UNCHANGED <<app, req, ran, locals, sessionStorage, effects, dist, timer,
                   thrown>>
    /\ UNCHANGED hvars

Next ==
    \/ NewRequest \/ Close \/ StoreSession
    \/ Health \/ AppInfo \/ Config \/ DebugOAuth \/ TestAuth \/ CspHeaders
    \/ EnsureInstalledOnShop \/ Auth \/ AuthCallback \/ ExitIframe
    \/ TimeoutMiddleware \/ TimeoutFires \/ Finish \/ ConnectionCloses \/ Root \/ ExpressRaw \/ WebhookUninstalled
    \/ ValidateAuthenticatedSession \/ ApiGate \/ GetShop \/ GetSettings
    \/ PostSettings \/ ThemeActivate \/ ExpressStatic \/ CatchAll \/ FinalHandler

Spec == Init /\ [][Next]_vars

-----------------------------------------------------------------------------
(* Claims about the session gate *)

\* the request has been answered and dispatch has ended
Ended == app # "none" /\ idx = 0 /\ req # NoReq

\* C6: every route under /api other than the health check and the config
\* probe is guarded by the session gate: a request without a valid session
\* is answered by the gate (401) before the route's handler executes.
C6_ApiRoutesGuarded ==
    ( /\ app = "api" /\ Ended
      /\ IsApiPath(req.path)
      /\ req.path \notin {<<"api", "health">>, <<"api", "config">>}
      /\ req.shop \notin sessionStorage
      /\ res.by # "timeout" )
        => (ran = {} /\ res.by = "validateAuthenticatedSession")

\* C7: the POST /api/settings handler executes only for requests that the
\* session gate has passed with an existing, valid Session; no request
\* without a session reaches it.
C7_SettingsWriteBehindGate ==
    "postSettings" \in ran => (locals = req.shop /\ req.shop \in sessionStorage)

C7_Witness ==
    /\ Ended /\ "postSettings" \in ran
    /\ req.method = "POST" /\ req.shop \in sessionStorage
    /\ res = [sent |-> TRUE, status |-> "200", by |-> "postSettings"]

-----------------------------------------------------------------------------
(* Claims about the OAuth callback and the uninstall webhook *)

\* the request is an OAuth callback (auth.callbackPath)
IsCallback(r) == r.method = "GET" /\ r.path = callbackPath(app)

\* a Session was persisted while serving the request
SessionCreated == \E e \in effects : e[1] = "session:store"

\* the code was exchanged for a token while serving the request
TokenExchanged == \E e \in effects : e[1] = "token-exchange"

\* C8: an OAuth callback that lacks code, lacks shop, or whose HMAC
\* verification fails ends FAILED with HTTP 400, and no Session is created.
C8_BadCallbackRejected ==
    ( /\ Ended /\ IsCallback(req)
      /\ \/ Falsy(Get(req.query, codeKey))
         \/ Falsy(Get(req.query, shopKey))
         \/ ~verifyOAuthHmac(req.query, apiSecretKey).value )
        => (res.status = "400" /\ ~SessionCreated)

\* C9: the OAuth callback answers with success only after the token exchange
\* succeeded and the Session was persisted, and that answer is a redirect to
\* the app root.
C9_CallbackSuccessAfterExchange ==
    (Ended /\ IsCallback(req) /\ res.status \in {"200", "302"})
        => (TokenExchanged /\ SessionCreated /\ res.status = "302")

\* C10: the app/uninstalled handler verifies x-shopify-hmac-sha256 against
\* the raw body before using the delivery: a delivery whose signature does
\* not verify is never processed as an uninstall.
C10_UninstallVerifiedFirst ==
    "webhookUninstalled" \in ran
        => verifyHmac(req.hook.body, req.hook.hmac, apiSecretKey).value

-----------------------------------------------------------------------------
(* The settings routes, with several clients served at the same time       *)

\* a settings record, by the two fields the validation rule is about
\* (position, delay); the record GET /api/settings answers with
defaultSettings == [position |-> "bottom", delay |-> 2]

\* records a client may send: two valid ones, one with a position outside
\* top/center/bottom, one with a negative delay
SettingsBodies ==
    { [position |-> "center", delay |-> 0], [position |-> "top", delay |-> 1],
      [position |-> "diagonal", delay |-> 2], [position |-> "top", delay |-> -1] }

\* req.body as the handler reads it: no body-parsing middleware is
\* registered before the route, so Express leaves it undefined
reqBody(sent) == undefined

\* the JSON of res.status(200).json({ success: true, settings })
postSettingsReply(settings) == [success |-> TRUE, settings |-> settings]

\* clients that may have a request in flight at the same time
MaxClients == 2
Clients == 1..MaxClients

\* how many successful POSTs the history keeps
MaxPosted == 2

NoClient == [at |-> "idle", method |-> "NONE", shop |-> "none", sent |-> undefined,
             session |-> "none", status |-> "none", reply |-> undefined]

SettingsInit ==
    /\ HelperIdle /\ WidgetIdle /\ StartIdle
    /\ app \in {"server", "api"} /\ dist = FALSE
    /\ req = NoReq /\ idx = 0 /\ res = NoRes /\ ran = {} /\ locals = "none"
    /\ sessionStorage = {} /\ effects = {} /\ timer = "none" /\ thrown = "none"
    /\ clients = [c \in Clients |-> NoClient]
    /\ posted = <<>>

\* client c sends GET /api/settings or POST /api/settings with a record
SendSettings(c) ==
    /\ clients[c].at = "idle"
    /\ \E s \in Shops :
          \/ clients' = [clients EXCEPT ![c] =
                [NoClient EXCEPT !.at = "gate", !.method = "GET", !.shop = s]]
          \/ \E b \in SettingsBodies :
                clients' = [clients EXCEPT ![c] =
                    [NoClient EXCEPT !.at = "gate", !.method = "POST", !.shop = s,
                                     !.sent = b]]
    /\ UNCHANGED posted /\ UNCHANGED <<helperVars, serverVars, widgetVars, startVars>>

\* app.use('/api/*', gate) for c's request: with a stored session the
\* request goes on to its route with res.locals.shopify.session set, without
\* one the library answers it
SettingsGate(c) ==
    /\ clients[c].at = "gate"
    /\ IF /\ app = "api"
          /\ MountedPath(<<"api", "settings">>) \in {<<"api", "health">>, <<"api", "config">>}
       THEN clients' = [clients EXCEPT ![c].at = "handler"]
       ELSE IF clients[c].shop \in sessionStorage
       THEN clients' = [clients EXCEPT ![c].at = "handler", ![c].session = clients[c].shop]
       ELSE clients' = [clients EXCEPT ![c].at = "done", ![c].status = "unauthenticated"]
    /\ UNCHANGED posted /\ UNCHANGED <<helperVars, serverVars, widgetVars, startVars>>

\* app.get('/api/settings') for c's request
ServeGetSettings(c) ==
    /\ clients[c].at = "handler" /\ clients[c].method = "GET"
    /\ clients' = [clients EXCEPT ![c].at = "done", ![c].status = "200",
                                  ![c].reply = defaultSettings]
    /\ UNCHANGED posted /\ UNCHANGED <<helperVars, serverVars, widgetVars, startVars>>

\* another client's POST for the same shop is in flight while c's is served
Overlapped(c) ==
    \E o \in Clients \ {c} :
        /\ clients[o].method = "POST" /\ clients[o].shop = clients[c].shop
        /\ clients[o].at \in {"gate", "handler"}

\* app.post('/api/settings') for c's request; posted records what the client
\* sent with a request answered success: true, and whether it overlapped
\* another POST for the shop
ServePostSettings(c) ==
    /\ clients[c].at = "handler" /\ clients[c].method = "POST"
    /\ clients' = [clients EXCEPT ![c].at = "done", ![c].status = "200",
                      ![c].reply = postSettingsReply(reqBody(clients[c].sent))]
    /\ posted' = LET all == Append(posted, [shop |-> clients[c].session,
                                            sent |-> clients[c].sent,
                                            overlapped |-> Overlapped(c)])
                 IN  IF Len(all) > MaxPosted THEN Tail(all) ELSE all
    /\ UNCHANGED <<helperVars, serverVars, widgetVars, startVars>>

\* client c has its answer
ReceiveSettings(c) ==
    /\ clients[c].at = "done"
    /\ clients' = [clients EXCEPT ![c] = NoClient]
    /\ UNCHANGED posted /\ UNCHANGED <<helperVars, serverVars, widgetVars, startVars>>

SettingsNext ==
    \/ StoreSession
    \/ \E c \in Clients : SendSettings(c)
    \/ \E c \in Clients : SettingsGate(c)
    \/ \E c \in Clients : ServeGetSettings(c)
    \/ \E c \in Clients : ServePostSettings(c)
    \/ \E c \in Clients : ReceiveSettings(c)

SpecSettings == SettingsInit /\ [][SettingsNext]_vars

-----------------------------------------------------------------------------
(* Claims about the settings store *)

\* the settings contract's validation rule: position is one of top, center,
\* bottom and delay is not negative
ValidSettings(r) == r.position \in {"top", "center", "bottom"} /\ r.delay >= 0

\* the positions in posted of the successful POSTs for shop s
PostedFor(s) == {i \in 1..Len(posted) : posted[i].shop = s}

\* the record of the latest successful POST for shop s (PostedFor(s) # {})
LastPosted(s) == posted[CHOOSE i \in PostedFor(s) : \A j \in PostedFor(s) : j <= i].sent

\* client c's GET /api/settings is answered 200 in this step
GetAnswered(c) ==
    /\ clients[c].at = "handler" /\ clients[c].method = "GET"
    /\ clients'[c].at = "done" /\ clients'[c].status = "200"

\* C11: settings round-trip: after a successful POST /api/settings with a
\* valid record R, GET /api/settings for the same shop returns exactly R.
C11_SettingsRoundTrip ==
    [][\A c \in Clients :
          ( /\ GetAnswered(c)
            /\ PostedFor(clients[c].session) # {}
            /\ ValidSettings(LastPosted(clients[c].session)) )
              => clients'[c].reply = LastPosted(clients[c].session)]_vars

\* C12: POST /api/settings rejects every record whose position is not one of
\* top, center, bottom or whose delay is negative with a 400 validation error.
C12_InvalidSettingsRejected ==
    \A c \in Clients :
        ( /\ clients[c].at = "done" /\ clients[c].method = "POST"
          /\ clients[c].session # "none"
          /\ ~ValidSettings(clients[c].sent) )
            => clients[c].status = "400"

\* C20: after two concurrent POST /api/settings for the same shop with records
\* A and B have both completed, GET /api/settings for that shop returns
\* exactly A or exactly B.
C20_ConcurrentPostsLeaveAOrB ==
    [][\A c \in Clients :
          ( /\ GetAnswered(c)
            /\ Len(posted) = 2
            /\ posted[1].shop = clients[c].session
            /\ posted[2].shop = clients[c].session
            /\ posted[1].overlapped
            /\ \A o \in Clients : clients[o].method # "POST" )
              => clients'[c].reply \in {posted[1].sent, posted[2].sent}]_vars

-----------------------------------------------------------------------------
(* Claims about the request timeout and the error handler *)

\* C18: every request whose handler has not responded within 25 seconds is
\* answered with a 504 timeout error: whenever a request of src/api/index.js
\* is with a handler that is waiting, the 25 s timer has been set for it.
C18_TimeoutCoversEveryRequest ==
    (app = "api" /\ Waiting) => timer # "none"

\* handlers declared async: an exception they do not catch rejects a promise
\* nobody handles, which ends the Node process
AsyncHandlers ==
    {"auth", "authCallback", "exitIframe", "root", "webhookUninstalled", "getShop",
     "getSettings", "postSettings", "themeActivate"}

\* the answers whose body is JSON with an error field
JsonErrorAnswers ==
    { <<"debugOAuth", "400">>, <<"testAuth", "400">>, <<"timeout", "504">>,
      <<"errorHandler", "500">>, <<"getShop", "500">> }

HasErrorField(r) == <<r.by, r.status>> \in JsonErrorAnswers

\* C19: every error raised while handling a request is answered with a JSON
\* body that has an error field (500 when unexpected) and never terminates
\* the process.
C19_ErrorsAnsweredAsJson ==
    Ended => /\ thrown \notin AsyncHandlers
             /\ (res.status = "500" => HasErrorField(res))

-----------------------------------------------------------------------------
(* The storefront widget: the acceptance flag in localStorage               *)

STORAGE_EXPIRY_DAYS == 365

\* times are in tenths of a second: every duration of the widget (300 ms,
\* delay * 1000 ms, days * 24 * 60 * 60 * 1000 ms) is a multiple of 100 ms
TicksPerSecond == 10

\* new Date().getTime()
Now == day * 24 * 60 * 60 * TicksPerSecond + tick

\* the item setWithExpiry(key, value, expiryDays) hands to localStorage.setItem
setWithExpiry_noExpiry(value, expiryDays) == [value |-> value, expiry |-> Now]

setWithExpiry(value, expiryDays) ==
    [value |-> value, expiry |-> Now + expiryDays * 24 * 60 * 60 * TicksPerSecond]

\* getWithExpiry(key) on item at time now: what it returns and what it
\* leaves in localStorage (an expired item is removed)
getWithExpiry_ignoresExpiry(item, now) ==
    IF item = NoItem THEN [value |-> "null", storage |-> item]
    ELSE [value |-> item.value, storage |-> item]

getWithExpiry(item, now) ==
    IF item = NoItem THEN [value |-> "null", storage |-> item]
    ELSE IF now > item.expiry THEN [value |-> "null", storage |-> NoItem]
    ELSE [value |-> item.value, storage |-> item]

hasAcceptedPrivacy(item, now) == getWithExpiry(item, now).value = "true"

\* markAsAccepted(): localStorage.setItem stores the item, or throws (quota,
\* storage disabled), which setWithExpiry catches
markAsAccepted ==
    \/ storage' = setWithExpiry("true", STORAGE_EXPIRY_DAYS) /\ acceptedAt' = Now
    \/ UNCHANGED <<storage, acceptedAt>>

-----------------------------------------------------------------------------
(* The storefront widget: the popups of a page                              *)

\* parseInt(s) for s undefined or a string: the number its leading digits
\* spell, NaN without any
Digits(s) == {i \in 1..Len(s) : \A j \in 1..i : s[j] \in 48..57}

RECURSIVE NumberOf(_, _)
NumberOf(s, n) == IF n = 0 THEN 0 ELSE 10 * NumberOf(s, n - 1) + (s[n] - 48)

parseInt(s) ==
    IF s = undefined \/ Digits(s) = {} THEN [nan |-> TRUE, n |-> 0]
    ELSE [nan |-> FALSE, n |-> NumberOf(s, Cardinality(Digits(s)))]

\* x || 2 for x a number or NaN
OrTwo(x) == IF x.nan \/ x.n = 0 THEN 2 ELSE x.n

\* the 300 ms of hidePopup
HideTicks == 3

\* a popup as the theme renders it: delay is its data-delay attribute,
\* decline whether it has a decline button; initAt and shownAt are when
\* initializePopup set it up and when its timer displayed it, calls how often
\* other scripts called window.PrivacyPopup for it (history)
FreshPopup(cfg) ==
    [delay |-> cfg.delay, decline |-> cfg.decline, display |-> "", show |-> FALSE,
     styled |-> FALSE, wired |-> FALSE, timers |-> {}, initAt |-> -1,
     shownAt |-> -1, calls |-> 0]

\* showPopup(popup, delay): setTimeout(..., delay * 1000)
showPopup(popup, delay, by) ==
    [popup EXCEPT !.timers = @ \cup {[kind |-> "show", by |-> by,
                                     due |-> tick + delay * TicksPerSecond]}]

\* hidePopup(popup)
hidePopup(popup) ==
    [popup EXCEPT !.show = FALSE,
                  !.timers = @ \cup {[kind |-> "hide", by |-> "hide",
                                     due |-> tick + HideTicks]}]

\* initializePopup(popup), accepted being what hasAcceptedPrivacy() returned
initializePopup_ignoresFlag(popup, accepted) ==
    showPopup([popup EXCEPT !.styled = TRUE, !.wired = TRUE, !.initAt = tick],
              OrTwo(parseInt(popup.delay)), "init")

initializePopup(popup, accepted) ==
    IF accepted THEN popup
    ELSE showPopup([popup EXCEPT !.styled = TRUE, !.wired = TRUE, !.initAt = tick],
                   OrTwo(parseInt(popup.delay)), "init")

\* what handleAccept / handleDecline send: the dataLayer entry, if
\* window.dataLayer is defined, and the CustomEvent
Notifications(pushed, dispatched, p) ==
    {<<dispatched, p>>} \cup (IF dataLayer THEN {<<pushed, p>>} ELSE {})

handleAccept(p) ==
    /\ markAsAccepted
    /\ popups' = [popups EXCEPT ![p] = hidePopup(@)]
    /\ events' = events \cup
           Notifications("privacy_popup_accepted", "privacyPopupAccepted", p)

handleDecline_marksAccepted(p) ==
    /\ markAsAccepted
    /\ popups' = [popups EXCEPT ![p] = hidePopup(@)]
    /\ events' = events \cup
           Notifications("privacy_popup_declined", "privacyPopupDeclined", p)

handleDecline(p) ==
    /\ UNCHANGED <<storage, acceptedAt>>
    /\ popups' = [popups EXCEPT ![p] = hidePopup(@)]
    /\ events' = events \cup
           Notifications("privacy_popup_declined", "privacyPopupDeclined", p)

\* the popups of the storefront page
PopupIds == {1}

\* data-delay absent, "0", "1"; with and without a decline button
Configs == [delay : {undefined, <<48>>, <<49>>}, decline : BOOLEAN]

\* how long, in tenths of a second, a day's visit is followed
MaxTick == 23

\* how often the visitor goes away and comes back on a later day
MaxTrips == 2

\* how often other scripts call window.PrivacyPopup.showPopup / hidePopup
\* for a popup of a page
MaxApiCalls == 1

\* the days a visitor stays away
AwayDays == {1, 364}

WidgetInit ==
    /\ HelperIdle /\ ServerIdle /\ SettingsIdle /\ StartIdle
    /\ day = 0 /\ tick = 0 /\ trips = 0 /\ storage = NoItem /\ acceptedAt = -1
    /\ page = "closed" /\ popups = <<>> /\ events = {}
    /\ dataLayer \in BOOLEAN

\* what an action of the widget leaves alone
ovars == <<helperVars, serverVars, settingsVars, startVars>>

\* the script runs on a page with the popups ids: initializeAllPopups calls
\* initializePopup for each, and each asks hasAcceptedPrivacy() first
OpenPage ==
    /\ page = "closed"
    /\ page' = "open" /\ events' = {}
    /\ \E cfg \in [PopupIds -> Configs] :
          popups' = [p \in PopupIds |->
                        initializePopup(FreshPopup(cfg[p]),
                                        hasAcceptedPrivacy(storage, Now))]
    /\ storage' = IF PopupIds = {} THEN storage
                  ELSE getWithExpiry(storage, Now).storage
    /\ UNCHANGED <<day, tick, trips, acceptedAt, dataLayer>> /\ UNCHANGED ovars

\* the callback of showPopup's timer
ShowTimerFires(p) ==
    /\ page = "open"
    /\ \E t \in popups[p].timers :
          /\ t.kind = "show" /\ t.due <= tick
          /\ popups' = [popups EXCEPT ![p].display = "flex", ![p].show = TRUE,
                           ![p].timers = @ \ {t},
                           ![p].shownAt = IF t.by = "init" THEN tick ELSE @]
    /\ UNCHANGED <<day, tick, trips, storage, acceptedAt, page, events, dataLayer>>
    /\ UNCHANGED ovars

\* the callback of hidePopup's timer
HideTimerFires(p) ==
    /\ page = "open"
    /\ \E t \in popups[p].timers :
          /\ t.kind = "hide" /\ t.due <= tick
          /\ popups' = [popups EXCEPT ![p].display = "none", ![p].timers = @ \ {t}]
    /\ UNCHANGED <<day, tick, trips, storage, acceptedAt, page, events, dataLayer>>
    /\ UNCHANGED ovars

\* the visitor can click what is displayed and has a listener
Clickable(p) == page = "open" /\ popups[p].wired /\ popups[p].display = "flex"

ClickAccept(p) ==
    /\ Clickable(p)
    /\ handleAccept(p)
    /\ UNCHANGED <<day, tick, trips, page, dataLayer>> /\ UNCHANGED ovars

ClickDecline(p) ==
    /\ Clickable(p) /\ popups[p].decline
    /\ handleDecline(p)
    /\ UNCHANGED <<day, tick, trips, page, dataLayer>> /\ UNCHANGED ovars

\* a click on the overlay itself (e.target === popup)
ClickOverlay(p) ==
    /\ Clickable(p)
    /\ popups' = [popups EXCEPT ![p] = hidePopup(@)]
    /\ UNCHANGED <<day, tick, trips, storage, acceptedAt, page, events, dataLayer>>
    /\ UNCHANGED ovars

\* window.PrivacyPopup.showPopup(popupId)
ApiShowPopup(p) ==
    /\ page = "open" /\ popups[p].calls < MaxApiCalls
    /\ popups' = [popups EXCEPT ![p] = showPopup([@ EXCEPT !.calls = @ + 1], 0, "api")]
    /\ UNCHANGED <<day, tick, trips, storage, acceptedAt, page, events, dataLayer>>
    /\ UNCHANGED ovars

\* window.PrivacyPopup.hidePopup(popupId)
ApiHidePopup(p) ==
    /\ page = "open" /\ popups[p].calls < MaxApiCalls
    /\ popups' = [popups EXCEPT ![p] = hidePopup([@ EXCEPT !.calls = @ + 1])]
    /\ UNCHANGED <<day, tick, trips, storage, acceptedAt, page, events, dataLayer>>
    /\ UNCHANGED ovars

\* window.PrivacyPopup.markAsAccepted()
ApiMarkAsAccepted ==
    /\ page = "open"
    /\ markAsAccepted
    /\ UNCHANGED <<day, tick, trips, page, popups, events, dataLayer>>
    /\ UNCHANGED ovars

\* window.PrivacyPopup.hasAccepted()
ApiHasAccepted ==
    /\ page = "open"
    /\ storage' = getWithExpiry(storage, Now).storage
    /\ UNCHANGED <<day, tick, trips, acceptedAt, page, popups, events, dataLayer>>
    /\ UNCHANGED ovars

\* the timers of the page that have not run
Pending == UNION {popups[p].timers : p \in DOMAIN popups}

\* time passes until the next timer is due
Tick ==
    /\ page = "open"
    /\ Pending # {} /\ \A t \in Pending : t.due > tick
    /\ tick' = CHOOSE d \in {t.due : t \in Pending} : \A t \in Pending : d <= t.due
    /\ tick' <= MaxTick
    /\ UNCHANGED <<day, trips, storage, acceptedAt, page, popups, events, dataLayer>>
    /\ UNCHANGED ovars

\* the visitor leaves the page
Leave ==
    /\ page = "open"
    /\ page' = "left" /\ popups' = <<>> /\ events' = {}
    /\ UNCHANGED <<day, tick, trips, storage, acceptedAt, dataLayer>>
    /\ UNCHANGED ovars

\* the visitor comes back some days later, at the time of day of the first visit
Away ==
    /\ page = "left" /\ trips < MaxTrips
    /\ \E d \in AwayDays : day' = day + d
    /\ tick' = 0 /\ trips' = trips + 1 /\ page' = "closed"
    /\ UNCHANGED <<storage, acceptedAt, popups, events, dataLayer>>
    /\ UNCHANGED ovars

WidgetNext ==
    \/ OpenPage \/ Tick \/ Leave \/ Away
    \/ ApiMarkAsAccepted \/ ApiHasAccepted
    \/ \E p \in PopupIds : ShowTimerFires(p)
    \/ \E p \in PopupIds : HideTimerFires(p)
    \/ \E p \in PopupIds : ClickAccept(p)
    \/ \E p \in PopupIds : ClickDecline(p)
    \/ \E p \in PopupIds : ClickOverlay(p)
    \/ \E p \in PopupIds : ApiShowPopup(p)
    \/ \E p \in PopupIds : ApiHidePopup(p)

SpecWidget == WidgetInit /\ [][WidgetNext]_vars

-----------------------------------------------------------------------------
(* Claims about the acceptance flag *)

\* a day in tenths of a second
DayTicks == 24 * 60 * 60 * TicksPerSecond

\* C13: an acceptance flag written by markAsAccepted at time T is read by
\* hasAcceptedPrivacy as accepted at every time up to T + 364 days and as not
\* accepted at every time from T + 366 days on (acceptedAt is the time of the
\* latest write that localStorage took).
C13_FlagLasts365Days ==
    acceptedAt # -1 =>
        /\ Now <= acceptedAt + 364 * DayTicks => hasAcceptedPrivacy(storage, Now)
        /\ Now >= acceptedAt + 366 * DayTicks => ~hasAcceptedPrivacy(storage, Now)

\* a page is opened 366 days or more after the flag was written, and the
\* read has removed the expired item
C13_Witness ==
    /\ acceptedAt # -1 /\ Now >= acceptedAt + 366 * DayTicks
    /\ page = "open" /\ storage = NoItem

-----------------------------------------------------------------------------
(* Claims about the popups *)

\* popup as the theme rendered it
Untouched(popup) ==
    popup = FreshPopup([delay |-> popup.delay, decline |-> popup.decline])

\* the page is loaded in this step
Loads == page = "closed" /\ page' = "open"

\* C14: if the acceptance flag is present and unexpired when the page loads,
\* initializePopup changes nothing for any popup of the page: no listener, no
\* show timer, no style or class; and a popup initializePopup returned from
\* early is never displayed by a timer of the initialization.
C14_AcceptedLoadChangesNothing ==
    /\ [][(Loads /\ hasAcceptedPrivacy(storage, Now))
             => \A p \in PopupIds : Untouched(popups'[p])]_vars
    /\ [](\A p \in DOMAIN popups :
             popups[p].initAt = -1 =>
                 /\ ~popups[p].wired /\ ~popups[p].styled /\ popups[p].shownAt = -1
                 /\ \A t \in popups[p].timers : t.by # "init")

\* the visitor is back on a later day with the flag still valid, and the
\* popup is as the theme rendered it
C14_Witness ==
    /\ page = "open" /\ day >= 364 /\ hasAcceptedPrivacy(storage, Now)
    /\ acceptedAt < day * DayTicks
    /\ \A p \in PopupIds : Untouched(popups[p])

\* what hidePopup does to popup p in this step: the show class is removed and
\* display: none is set to follow 300 ms later
Hides(p) ==
    /\ ~popups'[p].show
    /\ [kind |-> "hide", by |-> "hide", due |-> tick + HideTicks] \in popups'[p].timers

\* the flag a write at this moment stores
FlagNow == [value |-> "true", expiry |-> Now + 365 * DayTicks]

Initialised(p) ==
    /\ popups'[p].wired /\ popups'[p].styled
    /\ \E t \in popups'[p].timers : t.kind = "show" /\ t.by = "init"

\* C16: clicking the decline button or clicking the overlay outside the
\* content area hides the popup and leaves the stored acceptance flag
\* unchanged, so that the next page load without an accepted flag sets the
\* popup up to be shown again.
C16_DeclineKeepsFlag ==
    /\ [][\A p \in PopupIds :
             (ClickDecline(p) \/ ClickOverlay(p)) =>
                 Hides(p) /\ storage' = storage]_vars
    /\ [][(Loads /\ ~hasAcceptedPrivacy(storage, Now))
             => \A p \in PopupIds : Initialised(p)]_vars

\* on a later visit, with no flag ever stored, the popup was displayed again
\* and has just been declined
C16_Witness ==
    /\ page = "open" /\ trips >= 1 /\ storage = NoItem /\ acceptedAt = -1
    /\ \E p \in PopupIds :
          /\ <<"privacyPopupDeclined", p>> \in events
          /\ popups[p].shownAt # -1 /\ ~popups[p].show

\* the delay_seconds a popup is configured with: the integer its data-delay
\* attribute spells
Configured(popup) == popup.delay # undefined /\ ~parseInt(popup.delay).nan

delay_seconds(popup) == parseInt(popup.delay).n

\* C17: when no unexpired acceptance flag exists, the popup becomes visible
\* exactly delay_seconds after initialization for every configured integer
\* delay_seconds >= 0 (0 included), and not before.
C17_ShownAfterConfiguredDelay ==
    \A p \in DOMAIN popups :
        (Configured(popups[p]) /\ popups[p].shownAt # -1) =>
            popups[p].shownAt =
                popups[p].initAt + delay_seconds(popups[p]) * TicksPerSecond

-----------------------------------------------------------------------------
(* Starting the process: node src/server/index.js or node src/api/index.js  *)

\* the string literals of the two configurations
missing        == <<109, 105, 115, 115, 105, 110, 103>>
localhost3000  == <<108, 111, 99, 97, 108, 104, 111, 115, 116, 58, 51, 48, 48, 48>>
privacyPopupHost ==
    <<112, 114, 105, 118, 97, 99, 121, 45, 112, 111, 112, 117, 112, 46, 113, 45,
      98, 105, 122, 46, 99, 111, 46, 105, 108>>
https          == <<104, 116, 116, 112, 115>>
http           == <<104, 116, 116, 112>>
defaultScopes  ==
    << <<119, 114, 105, 116, 101, 95, 116, 104, 101, 109, 101, 115>>,
       <<114, 101, 97, 100, 95, 116, 104, 101, 109, 101, 115>> >>
defaultPort    == <<51, 48, 48, 48>>

\* x || d for x a string or undefined
OrElse(x, d) == IF Falsy(x) THEN d ELSE x

\* s.includes(sub)
includes(s, sub) ==
    \E i \in 1..(Len(s) - Len(sub) + 1) : SubSeq(s, i, i + Len(sub) - 1) = sub

\* how many characters /https?:\/\// matches at position i of s (0: no match)
SchemeAt(s, i) ==
    IF i + 7 <= Len(s) /\ SubSeq(s, i, i + 7) = https \o <<58, 47, 47>> THEN 8
    ELSE IF i + 6 <= Len(s) /\ SubSeq(s, i, i + 6) = http \o <<58, 47, 47>> THEN 7
    ELSE 0

\* s.replace(/https?:\/\//, ''): the leftmost match is removed
replaceScheme(s) ==
    LET at == {i \in 1..Len(s) : SchemeAt(s, i) > 0}
    IN  IF at = {} THEN s
        ELSE LET i == CHOOSE a \in at : \A b \in at : a <= b
             IN  SubSeq(s, 1, i - 1) \o SubSeq(s, i + SchemeAt(s, i), Len(s))

\* s.split(',')
RECURSIVE split(_)
split(s) ==
    LET at == {i \in 1..Len(s) : s[i] = 44}
    IN  IF at = {} THEN <<s>>
        ELSE LET i == CHOOSE a \in at : \A b \in at : a <= b
             IN  <<SubSeq(s, 1, i - 1)>> \o split(SubSeq(s, i + 1, Len(s)))

\* process.env.SCOPES?.split(',') || [...]: an array is never falsy
scopesOf(e) == IF e.SCOPES = undefined THEN defaultScopes ELSE split(e.SCOPES)

\* process.env.HOST?.replace(/https?:\/\//, '') || d
hostNameOf(e, d) == IF e.HOST = undefined THEN d ELSE OrElse(replaceScheme(e.HOST), d)

\* the api object src/server/index.js passes to shopifyApp()
serverConfig(e) ==
    [apiKey |-> e.SHOPIFY_API_KEY, apiSecretKey |-> e.SHOPIFY_API_SECRET,
     scopes |-> scopesOf(e), hostName |-> hostNameOf(e, localhost3000),
     hostScheme |-> IF e.HOST # undefined /\ includes(e.HOST, https) THEN https
                    ELSE http]

\* the api object src/api/index.js passes to shopifyApp()
apiConfig(e) ==
    [apiKey |-> OrElse(e.SHOPIFY_API_KEY, missing),
     apiSecretKey |-> OrElse(e.SHOPIFY_API_SECRET, missing),
     scopes |-> scopesOf(e), hostName |-> hostNameOf(e, privacyPopupHost),
     hostScheme |-> https]

\* the environments a process is started in
Environments ==
    [SHOPIFY_API_KEY : {undefined, <<>>, <<107, 49>>},
     SHOPIFY_API_SECRET : {undefined, <<>>, apiSecretKey},
     HOST : {undefined, <<104, 46, 105, 111>>,
             <<104, 116, 116, 112, 58, 47, 47, 104, 46, 105, 111>>,
             <<104, 116, 116, 112, 115, 58, 47, 47, 104, 46, 105, 111>>},
     SCOPES : {undefined, <<97, 44, 98>>},
     PORT : {undefined, <<56, 48, 56, 48>>}]

\* dotenv.config() has run; src/api/index.js goes on to its environment
\* check, src/server/index.js to shopifyApp()
StartInit ==
    /\ HelperIdle /\ ServerIdle /\ SettingsIdle /\ WidgetIdle
    /\ env \in Environments /\ shopify = NoConfig
    /\ \E m \in {"server", "api"} :
          proc = [main |-> m, at |-> IF m = "api" THEN "check" ELSE "configure",
                  errors |-> 0, port |-> undefined]

\* what an action of the start leaves alone
tvars == <<helperVars, settingsVars, widgetVars>>

\* src/api/index.js: the check logs two errors when a key is missing, and
\* goes on
EnvironmentCheck ==
    /\ proc.at = "check"
    /\ proc' = [proc EXCEPT
                  !.at = "configure",
                  !.errors = IF Falsy(env.SHOPIFY_API_KEY) \/ Falsy(env.SHOPIFY_API_SECRET)
                             THEN 2 ELSE 0]
    /\ UNCHANGED <<env, shopify>> /\ UNCHANGED serverVars /\ UNCHANGED tvars

\* the configuration the entry file builds from process.env
configOf(m, e) == IF m = "server" THEN serverConfig(e) ELSE apiConfig(e)

\* shopifyApp(...): the library takes the configuration; one without key or
\* secret it may refuse by throwing, which ends the process (the library is
\* not part of the repository: both outcomes are kept)
ConfigureShopify ==
    /\ proc.at = "configure"
    /\ LET config == configOf(proc.main, env)
       IN  \/ shopify' = config /\ proc' = [proc EXCEPT !.at = "express"]
           \/ /\ Falsy(config.apiKey) \/ Falsy(config.apiSecretKey)
              /\ shopify' = NoConfig /\ proc' = [proc EXCEPT !.at = "exited"]
    /\ UNCHANGED env /\ UNCHANGED serverVars /\ UNCHANGED tvars

\* const app = express() and the registration of the routes
CreateApp ==
    /\ proc.at = "express"
    /\ app' = proc.main
    /\ proc' = [proc EXCEPT !.at = "listen"]
    /\ UNCHANGED <<req, idx, res, ran, locals, sessionStorage, effects, dist, timer,
                   thrown>>
    /\ UNCHANGED <<env, shopify>> /\ UNCHANGED tvars

\* app.listen(process.env.PORT || 3000)
Listen ==
    /\ proc.at = "listen"
    /\ proc' = [proc EXCEPT !.at = "listening", !.port = OrElse(env.PORT, defaultPort)]
    /\ UNCHANGED <<env, shopify>> /\ UNCHANGED serverVars /\ UNCHANGED tvars

StartNext == EnvironmentCheck \/ ConfigureShopify \/ CreateApp \/ Listen

SpecStart == StartInit /\ [][StartNext]_vars

-----------------------------------------------------------------------------
(* Claims about uninstalling and about the start of the process *)

\* C21: after an app/uninstalled webhook for shop s has been handled, no
\* Session for s exists any more, so every later protected request for s is
\* rejected as unauthenticated until a new OAuth callback succeeds for s
\* (checked for the platform's own, correctly signed delivery).
C21_UninstallRemovesSession ==
    ( /\ Ended /\ "webhookUninstalled" \in ran
      /\ verifyHmac(req.hook.body, req.hook.hmac, apiSecretKey).value
      /\ res = [sent |-> TRUE, status |-> "200", by |-> "webhookUninstalled"] )
        => req.hook.domain \notin sessionStorage

\* SHOPIFY_API_KEY or SHOPIFY_API_SECRET is not set
KeyMissing == env.SHOPIFY_API_KEY = undefined \/ env.SHOPIFY_API_SECRET = undefined

\* C22: when SHOPIFY_API_KEY or SHOPIFY_API_SECRET is missing at process
\* start, the server fails fast: it never reaches the listening state and
\* never configures the Shopify app with a substituted default key or secret.
C22_MissingKeyFailsFast ==
    KeyMissing =>
        /\ proc.at # "listening"
        /\ shopify # NoConfig =>
              /\ shopify.apiKey = env.SHOPIFY_API_KEY
              /\ shopify.apiSecretKey = env.SHOPIFY_API_SECRET

-----------------------------------------------------------------------------
(* Claims about the interleavings of timers *)

\* C23: for every request that passes through the 25-second timeout
\* middleware, at most one response is ever written, under every interleaving
\* of the timer firing and the route handler completing or failing (a written
\* response is never replaced); and once a response has finished or the
\* connection has closed, the timer never fires for that request.
C23_OneResponsePerRequest ==
    /\ [][(timer # "none" /\ res.sent /\ req' = req) => res' = res]_vars
    /\ [][(timer = "cleared" /\ req' = req) => timer' = "cleared"]_vars
    /\ [](res.by = "timeout" => timer = "fired")

\* the timer fired first and answered 504; the handler of GET /api/shop then
\* completed, and its answer was refused
C23_Witness ==
    /\ Ended /\ timer = "fired" /\ thrown = "getShop"
    /\ res = [sent |-> TRUE, status |-> "504", by |-> "timeout"]

\* C24: for every sequence of showPopup and hidePopup calls on one popup and
\* every firing order of their pending timers, once no timer is pending the
\* popup has the 'show' class if and only if its display is 'flex'; a hide
\* timer scheduled before a later show never leaves a shown popup with
\* display 'none'.
C24_ShowClassMatchesDisplay ==
    \A p \in DOMAIN popups :
        popups[p].timers = {} => (popups[p].show <=> popups[p].display = "flex")

=============================================================================
